---- MODULE Spec2Model ----
(***************************************************************************)
(* The four-phase Text-to-SQL workflow of backend/agents.py (AgentGraph):  *)
(* receptionist -> librarian -> engineer -> inspector, with the            *)
(* conditional edge should_retry from inspector back to engineer.          *)
(*                                                                         *)
(* Text is modelled by TLA+ strings, character by character.  A TLA+       *)
(* string literal cannot hold a backquote, so the Markdown fence of three  *)
(* backquotes is written "~~~" throughout (Fence).                         *)
(***************************************************************************)
EXTENDS Integers, Sequences, FiniteSets, TLC

(***************************************************************************)
(* Python str operations used by the handlers                              *)
(***************************************************************************)
MinOf(S) == CHOOSE x \in S : \A y \in S : x <= y

MaxOf(S) == CHOOSE x \in S : \A y \in S : x >= y

\* s[i-1:i]: the character at position i (from 1), "" outside the string
CharAt(s, i) == IF i >= 1 /\ i <= Len(s) THEN SubSeq(s, i, i) ELSE ""

LowerAlpha == "abcdefghijklmnopqrstuvwxyz"

UpperAlpha == "ABCDEFGHIJKLMNOPQRSTUVWXYZ"

LowerSet == {CharAt(LowerAlpha, i) : i \in 1..26}

UpperSet == {CharAt(UpperAlpha, i) : i \in 1..26}

ToLower == [c \in UpperSet |->
              CharAt(LowerAlpha, CHOOSE i \in 1..26 : CharAt(UpperAlpha, i) = c)]

ToUpper == [c \in LowerSet |->
              CharAt(UpperAlpha, CHOOSE i \in 1..26 : CharAt(LowerAlpha, i) = c)]

IsLetter(c) == c \in LowerSet \/ c \in UpperSet

\* the characters Python's str.strip() and the regex class \s remove
IsSpace(c) == c \in {" ", "\n", "\t"}

RECURSIVE Lower(_)
Lower(s) ==
    IF s = "" THEN ""
    ELSE (IF Head(s) \in UpperSet THEN ToLower[Head(s)] ELSE Head(s)) \o Lower(Tail(s))

RECURSIVE Upper(_)
Upper(s) ==
    IF s = "" THEN ""
    ELSE (IF Head(s) \in LowerSet THEN ToUpper[Head(s)] ELSE Head(s)) \o Upper(Tail(s))

RECURSIVE LStrip(_)
LStrip(s) == IF s # "" /\ IsSpace(Head(s)) THEN LStrip(Tail(s)) ELSE s

RECURSIVE RStrip(_)
RStrip(s) ==
    IF s # "" /\ IsSpace(CharAt(s, Len(s))) THEN RStrip(SubSeq(s, 1, Len(s) - 1)) ELSE s

Strip(s) == RStrip(LStrip(s))

\* str.rstrip(';')
RECURSIVE RStripSemi(_)
RStripSemi(s) ==
    IF s # "" /\ CharAt(s, Len(s)) = ";" THEN RStripSemi(SubSeq(s, 1, Len(s) - 1)) ELSE s

MatchAt(s, i, p) == i >= 1 /\ i + Len(p) - 1 <= Len(s) /\ SubSeq(s, i, i + Len(p) - 1) = p

\* p is given in lower case
MatchAtCI(s, i, p) ==
    i >= 1 /\ i + Len(p) - 1 <= Len(s) /\ Lower(SubSeq(s, i, i + Len(p) - 1)) = p

StartsWith(s, p) == MatchAt(s, 1, p)

\* Python's  p in s
Contains(s, p) == \E i \in 1..Len(s) : MatchAt(s, i, p)

\* s[:n]
Prefix(s, n) == SubSeq(s, 1, IF Len(s) < n THEN Len(s) ELSE n)

\* str.replace(p, r), p non-empty
RECURSIVE Replace(_, _, _)
Replace(s, p, r) ==
    IF Len(s) < Len(p) THEN s
    ELSE IF MatchAt(s, 1, p) THEN r \o Replace(SubSeq(s, Len(p) + 1, Len(s)), p, r)
    ELSE Head(s) \o Replace(Tail(s), p, r)

\* re.sub(r'\s+', ' ', s)
RECURSIVE CollapseWs(_)
CollapseWs(s) ==
    IF s = "" THEN ""
    ELSE IF IsSpace(Head(s)) THEN " " \o CollapseWs(LStrip(s))
    ELSE Head(s) \o CollapseWs(Tail(s))

\* str.split('\n')
RECURSIVE SplitLines(_)
SplitLines(s) ==
    IF \E i \in 1..Len(s) : CharAt(s, i) = "\n"
    THEN LET i == MinOf({k \in 1..Len(s) : CharAt(s, k) = "\n"})
         IN  <<SubSeq(s, 1, i - 1)>> \o SplitLines(SubSeq(s, i + 1, Len(s)))
    ELSE <<s>>

\* line.split(';')[0]
BeforeSemi(s) ==
    IF \E i \in 1..Len(s) : CharAt(s, i) = ";"
    THEN SubSeq(s, 1, MinOf({k \in 1..Len(s) : CharAt(s, k) = ";"}) - 1)
    ELSE s

\* ' '.join(lines)
RECURSIVE JoinSpace(_)
JoinSpace(lines) ==
    IF lines = <<>> THEN ""
    ELSE IF Len(lines) = 1 THEN lines[1]
    ELSE lines[1] \o " " \o JoinSpace(Tail(lines))

\* the length of the run of whitespace that starts at position i
RECURSIVE SpaceRun(_, _)
SpaceRun(s, i) == IF i <= Len(s) /\ IsSpace(CharAt(s, i)) THEN 1 + SpaceRun(s, i + 1) ELSE 0

\* the length of the run of letters that starts at position i
RECURSIVE LetterRun(_, _)
LetterRun(s, i) == IF i <= Len(s) /\ IsLetter(CharAt(s, i)) THEN 1 + LetterRun(s, i + 1) ELSE 0

(***************************************************************************)
(* Structured-output extraction of the SQL statement (engineer_node)       *)
(***************************************************************************)
Fence == "~~~"

NoMatch == [found |-> FALSE, text |-> ""]

Found(t) == [found |-> TRUE, text |-> t]

\* positions where the regex prefix  SELECT\s+  (IGNORECASE) matches
SelectStarts(s) ==
    {i \in 1..Len(s) : MatchAtCI(s, i, "select") /\ i + 6 <= Len(s) /\ IsSpace(CharAt(s, i + 6))}

\* first position after  SELECT\s+  matched greedily at i
AfterSelect(s, i) == i + 6 + SpaceRun(s, i + 6)

\* Pattern 1:  ```(?:sql)?\s*\n(.*?)\n```   (DOTALL | IGNORECASE), re.search
AfterTag(s, i) == IF MatchAtCI(s, i + 3, "sql") THEN i + 6 ELSE i + 3

\* where group 1 may start: after a newline that ends the (backtracking) \s* run
BlockStarts(s, i) ==
    LET a == AfterTag(s, i)
    IN  {a + k + 1 : k \in {k \in 0..(SpaceRun(s, a) - 1) : CharAt(s, a + k) = "\n"}}

BlockEnds(s, g) == {j \in g..Len(s) : MatchAt(s, j, "\n" \o Fence)}

ClosedBlockStarts(s, i) == {g \in BlockStarts(s, i) : BlockEnds(s, g) # {}}

CodeBlock(s) ==
    LET opens == {i \in 1..Len(s) : MatchAt(s, i, Fence) /\ ClosedBlockStarts(s, i) # {}}
    IN  IF opens = {} THEN NoMatch
        ELSE LET i == MinOf(opens)
                 g == MaxOf(ClosedBlockStarts(s, i))
                 j == MinOf(BlockEnds(s, g))
             IN  Found(SubSeq(s, g, j - 1))

\* Pattern 2:  (SELECT\s+.*?);
SemiAfter(s, i) == {j \in AfterSelect(s, i)..Len(s) : CharAt(s, j) = ";"}

SelectToSemicolon(s) ==
    LET starts == {i \in SelectStarts(s) : SemiAfter(s, i) # {}}
    IN  IF starts = {} THEN NoMatch
        ELSE LET i == MinOf(starts)
             IN  Found(SubSeq(s, i, MinOf(SemiAfter(s, i)) - 1))

\* $ without MULTILINE: the end of the string, or just before a final newline
AtEnd(s, j) == j = Len(s) + 1 \/ (j = Len(s) /\ CharAt(s, j) = "\n")

\* \n[A-Z][a-z]+:  under IGNORECASE: a newline, two or more letters, a colon
ProseLabelAt(s, j) ==
    /\ CharAt(s, j) = "\n"
    /\ LetterRun(s, j + 1) >= 2
    /\ CharAt(s, j + 1 + LetterRun(s, j + 1)) = ":"

\* Pattern 3:  (SELECT\s+.*?)(?:\n\n|\n[A-Z][a-z]+:|$)
SelectToBlank(s) ==
    IF SelectStarts(s) = {} THEN NoMatch
    ELSE LET i == MinOf(SelectStarts(s))
             j == MinOf({j \in AfterSelect(s, i)..(Len(s) + 1) :
                            MatchAt(s, j, "\n\n") \/ ProseLabelAt(s, j) \/ AtEnd(s, j)})
         IN  Found(SubSeq(s, i, j - 1))

\* Pattern 4: the line-by-line scan
ClauseKeywords == {"SELECT", "FROM", "WHERE", "GROUP", "ORDER", "LIMIT", "HAVING"}

FillerWords == {"THE", "HERE", "NOTE", "IMPORTANT", "REMEMBER"}

RECURSIVE ScanLines(_, _, _, _)
ScanLines(lines, k, sql_lines, in_sql) ==
    IF k > Len(lines) THEN sql_lines
    ELSE LET line_clean == Strip(lines[k])
             line_upper == Upper(line_clean)
         IN  IF line_clean = ""
             THEN (IF in_sql THEN sql_lines ELSE ScanLines(lines, k + 1, sql_lines, in_sql))
             ELSE IF StartsWith(line_upper, "SELECT")
             THEN ScanLines(lines, k + 1, <<line_clean>>, TRUE)
             ELSE IF in_sql
             THEN IF \E kw \in ClauseKeywords : StartsWith(line_upper, kw)
                  THEN ScanLines(lines, k + 1, Append(sql_lines, line_clean), TRUE)
                  ELSE IF Contains(line_clean, ";")
                  THEN Append(sql_lines, BeforeSemi(line_clean))
                  ELSE IF \E w \in FillerWords : StartsWith(line_upper, w)
                  THEN sql_lines
                  ELSE ScanLines(lines, k + 1, Append(sql_lines, line_clean), TRUE)
             ELSE ScanLines(lines, k + 1, sql_lines, in_sql)

SqlLines(s) ==
    LET sql_lines == ScanLines(SplitLines(s), 1, <<>>, FALSE)
    IN  IF sql_lines = <<>> THEN "" ELSE Strip(RStripSemi(Strip(JoinSpace(sql_lines))))

\* ExtractSQL with pattern 2 tried before pattern 1
ExtractSQL_semicolon_first(response) ==
    LET response_clean == Strip(response)
        p2 == IF SelectToSemicolon(response_clean).found
              THEN Strip(SelectToSemicolon(response_clean).text) ELSE ""
        p1 == IF p2 # "" THEN p2
              ELSE IF CodeBlock(response_clean).found
              THEN Strip(CodeBlock(response_clean).text) ELSE p2
        p3 == IF p1 # "" THEN p1
              ELSE IF SelectToBlank(response_clean).found
              THEN Strip(SelectToBlank(response_clean).text) ELSE p1
    IN  IF p3 # "" THEN p3 ELSE SqlLines(response_clean)

\* lines 380-430: the four patterns in order, each tried only while sql_query is
\* falsy (None or ''); "" stands for both
ExtractSQL(response) ==
    LET response_clean == Strip(response)
        p1 == IF CodeBlock(response_clean).found
              THEN Strip(CodeBlock(response_clean).text) ELSE ""
        p2 == IF p1 # "" THEN p1
              ELSE IF SelectToSemicolon(response_clean).found
              THEN Strip(SelectToSemicolon(response_clean).text) ELSE p1
        p3 == IF p2 # "" THEN p2
              ELSE IF SelectToBlank(response_clean).found
              THEN Strip(SelectToBlank(response_clean).text) ELSE p2
    IN  IF p3 # "" THEN p3 ELSE SqlLines(response_clean)

MinSqlLen == 10

\* the validity test without  sql_query.upper().startswith('SELECT')
MinimallyValid_length_only(sql_query) ==
    sql_query # "" /\ Len(sql_query) >= MinSqlLen

\* the negation of the test of lines 433 and 462
MinimallyValid(sql_query) ==
    sql_query # "" /\ Len(sql_query) >= MinSqlLen /\ StartsWith(Upper(sql_query), "SELECT")

\* line 455:  (SELECT\s+.*?)(?:;|\n\n|$)  on the re-prompt's completion
RetryMatch(s) ==
    IF SelectStarts(s) = {} THEN NoMatch
    ELSE LET i == MinOf(SelectStarts(s))
             j == MinOf({j \in AfterSelect(s, i)..(Len(s) + 1) :
                            CharAt(s, j) = ";" \/ MatchAt(s, j, "\n\n") \/ AtEnd(s, j)})
         IN  Found(SubSeq(s, i, j - 1))

\* lines 467-469
CleanSQL(sql_query) ==
    CollapseWs(Strip(Replace(Replace(sql_query, Fence \o "sql", ""), Fence, "")))

(***************************************************************************)
(* What the external collaborators may answer                              *)
(*   Text Generation Capability: self.llm.invoke   -> a completion, or an  *)
(*                                                    exception            *)
(*   Column Index: SchemaStore.find_relevant_columns (the embedding model) *)
(*   Tabular Executor: pd.read_sql_query on the SQLite connection          *)
(***************************************************************************)
Completion(t) == [ok |-> TRUE, text |-> t]

\* self.llm.invoke raised; text is str(e)
LLMFailure == [ok |-> FALSE, text |-> "Connection refused"]

\* a completion with no statement-like content, no braces and no brackets
Prose == "I cannot help with that."

Queries == {"Count patients taking Aspirin", "what drug is the patient E5F99 taking?"}

\* SchemaStore.column_info, in insertion order
column_names == <<"Anonymous_Uid", "Drugname", "DiagnosisName", "Revalue">>

column_info ==
    [c \in {column_names[i] : i \in 1..Len(column_names)} |->
        [description |-> "Description of " \o c, example |-> "Example of " \o c]]

InSchema(c) == c \in DOMAIN column_info

\* ---- Plan phase completions, and what json.loads makes of their brace region
PlanJsonSteps == "{\"steps\": [{\"step_number\": 1, \"action\": \"count\", \"description\": \"count patients\"}], \"final_action\": \"count\"}"

PlanJsonNoSteps == "Here is the plan: {\"final_action\": \"count\"} Done."

PlanJsonStringSteps == "{\"steps\": [\"count patients\"]}"

PlanNotJson == "Plan: {steps: count patients}"

PlanCompletions == {PlanJsonSteps, PlanJsonNoSteps, PlanJsonStringSteps, PlanNotJson, Prose}

PlanOutcomes == {Completion(t) : t \in PlanCompletions} \cup {LLMFailure}

\* A plan (a JSON object) is kept as: whether it has the key "steps", whether
\* that value is a list of objects (what librarian_node needs to render it),
\* the steps, and final_action.  A step keeps step_number, action,
\* description and target as text, "" when the key is absent.
Step(n, a, d, t) == [step_number |-> n, action |-> a, description |-> d, target |-> t]

Plan(has, wellformed, steps, final) ==
    [has_steps |-> has, steps_ok |-> wellformed, steps |-> steps, final_action |-> final]

\* query(): "plan": {}
EmptyPlan == Plan(FALSE, TRUE, <<>>, "")

\* json.loads of a brace region; the regions are those of PlanCompletions
JsonLoadsObject(region) ==
    CASE region = PlanJsonSteps ->
            [valid |-> TRUE,
             value |-> Plan(TRUE, TRUE, <<Step("1", "count", "count patients", "")>>, "count")]
      [] region = "{\"final_action\": \"count\"}" ->
            [valid |-> TRUE, value |-> Plan(FALSE, TRUE, <<>>, "count")]
      [] region = PlanJsonStringSteps ->
            [valid |-> TRUE, value |-> Plan(TRUE, FALSE, <<>>, "")]
      [] OTHER -> [valid |-> FALSE, value |-> EmptyPlan]

\* re.search(r'\{.*\}', response, re.DOTALL): first "{" to last "}"
BraceRegion(s) ==
    LET opens == {i \in 1..Len(s) : CharAt(s, i) = "{" /\ \E j \in (i + 1)..Len(s) : CharAt(s, j) = "}"}
    IN  IF opens = {} THEN NoMatch
        ELSE LET i == MinOf(opens)
                 j == MaxOf({j \in (i + 1)..Len(s) : CharAt(s, j) = "}"})
             IN  Found(SubSeq(s, i, j))

\* ---- Retrieve phase completions
ColsJson == "[\"Drugname\", \"Anonymous_Uid\"]"

ColsJsonUnknown == "Columns: [\"Age\", \"PatientID\"]"

ColsJsonEmpty == "[]"

ColsNotJson == "[Drugname, Revalue]"

ColsInText == "Use drugname and REVALUE."

\* an array that names a column twice
ColsJsonRepeated == "[\"Drugname\", \"Anonymous_Uid\", \"Drugname\"]"

\* an array of eleven names
ColsJsonEleven ==
    "[\"Drugname\", \"Revalue\", \"Drugname\", \"Revalue\", \"Drugname\", \"Revalue\", "
    \o "\"Drugname\", \"Revalue\", \"Drugname\", \"Revalue\", \"DiagnosisName\"]"

LibrarianCompletions == {ColsJson, ColsJsonUnknown, ColsJsonEmpty, ColsNotJson, ColsInText, Prose}

LibrarianOutcomes == {Completion(t) : t \in LibrarianCompletions} \cup {LLMFailure}

\* the outcomes of the Retrieve phase taken alone: those above and the two
\* longer arrays
RetrieveOutcomes ==
    LibrarianOutcomes \cup {Completion(ColsJsonRepeated), Completion(ColsJsonEleven)}

\* json.loads of a bracket region; the regions are those of LibrarianCompletions
JsonLoadsArray(region) ==
    CASE region = ColsJson -> [valid |-> TRUE, value |-> <<"Drugname", "Anonymous_Uid">>]
      [] region = "[\"Age\", \"PatientID\"]" -> [valid |-> TRUE, value |-> <<"Age", "PatientID">>]
      [] region = ColsJsonEmpty -> [valid |-> TRUE, value |-> <<>>]
      [] region = ColsJsonRepeated
            -> [valid |-> TRUE, value |-> <<"Drugname", "Anonymous_Uid", "Drugname">>]
      [] region = ColsJsonEleven
            -> [valid |-> TRUE,
                value |-> <<"Drugname", "Revalue", "Drugname", "Revalue", "Drugname",
                            "Revalue", "Drugname", "Revalue", "Drugname", "Revalue",
                            "DiagnosisName">>]
      [] OTHER -> [valid |-> FALSE, value |-> <<>>]

\* re.search(r'\[.*?\]', response, re.DOTALL): first "[" to the next "]"
BracketRegion(s) ==
    LET opens == {i \in 1..Len(s) : CharAt(s, i) = "[" /\ \E j \in (i + 1)..Len(s) : CharAt(s, j) = "]"}
    IN  IF opens = {} THEN NoMatch
        ELSE LET i == MinOf(opens)
                 j == MinOf({j \in (i + 1)..Len(s) : CharAt(s, j) = "]"})
             IN  Found(SubSeq(s, i, j))

\* ---- Column Index: the similarities the embedding model yields (in
\* hundredths), or an exception from encode() or from an index never built
Similarities ==
    { [c \in DOMAIN column_info |->
          CASE c = "Anonymous_Uid" -> 22 [] c = "Drugname" -> 71
            [] c = "DiagnosisName" -> 40 [] OTHER -> 5],
      [c \in DOMAIN column_info |->
          CASE c = "Anonymous_Uid" -> 64 [] c = "Drugname" -> 12
            [] c = "DiagnosisName" -> 33 [] OTHER -> 47] }

IndexFailure == [ok |-> FALSE, sim |-> [c \in DOMAIN column_info |-> 0]]

IndexOutcomes == {[ok |-> TRUE, sim |-> f] : f \in Similarities} \cup {IndexFailure}

\* ---- Generate phase completions
SqlPlain == "SELECT Drugname FROM patient_data"

SqlFenced == "Here you go:\n~~~sql\nSELECT COUNT(*) FROM patient_data\n~~~"

SqlShort == "SELECT 1"

EngineerCompletions == {SqlPlain, SqlFenced, SqlShort, Prose}

EngineerOutcomes == {Completion(t) : t \in EngineerCompletions} \cup {LLMFailure}

SqlReprompt == "SELECT Age  FROM patient_data;"

RepromptOutcomes == {Completion(SqlReprompt), Completion(Prose), LLMFailure}

\* ---- Tabular Executor: a DataFrame (its rows, each a tuple of cells), or an
\* exception whose str() is the diagnostic
NoRows == <<>>

OneCell == << <<"42">> >>

TwoRows == << <<"E5F99", "Aspirin">>, <<"E5F86", "Timolol">> >>

ErrNoColumn == "no such column: Age"

ErrSyntax == "near FROM: Syntax Error"

ErrNoTable == "no such table: patients"

ErrLocked == "database is locked"

ExecErrors == {ErrNoColumn, ErrSyntax, ErrNoTable, ErrLocked}

\* what pd.read_sql_query raises for the empty statement: SQLite runs it and
\* yields no result set, and pandas then fails on the missing column list
ErrEmptyStatement == "'NoneType' object is not iterable"

\* the diagnostics above that report a missing column, a malformed statement
\* or a missing table
StructuralErrors == {ErrNoColumn, ErrSyntax, ErrNoTable}

ExecOutcomes ==
    {[ok |-> TRUE, rows |-> r, text |-> ""] : r \in {NoRows, OneCell, TwoRows}}
    \cup {[ok |-> FALSE, rows |-> NoRows, text |-> e] : e \in ExecErrors}

ExecOutcomesFor(sql_query) ==
    IF sql_query = ""
    THEN {[ok |-> FALSE, rows |-> NoRows, text |-> ErrEmptyStatement]}
    ELSE ExecOutcomes

\* ---- Explanation completions
Answer == "There are **42** patients.\n"

Blank == "  \n"

ExplainOutcomes == {Completion(Answer), Completion(Prose), Completion(Blank), LLMFailure}

(***************************************************************************)
(* The phase handlers, as functions of the AgentState and of what the      *)
(* external calls of the handler answered                                  *)
(***************************************************************************)
\* query(): initial_state
initial_state(user_query) ==
    [user_query |-> user_query,
     plan |-> EmptyPlan,
     relevant_columns |-> <<>>,
     sql_query |-> "",
     execution_result |-> NoRows,
     error_message |-> "",
     execution_count |-> 0,
     explanation |-> "",
     current_phase |-> ""]

\* the plan of the "no JSON in the response" branch
FallbackPlan(user_query) ==
    Plan(TRUE, TRUE,
         <<Step("1", "filter", "Process query: " \o user_query, user_query)>>,
         "Return results")

\* the plan of the except branch
MinimalPlan(user_query) ==
    Plan(TRUE, TRUE, <<Step("1", "query", user_query, "")>>, "Execute query")

\* receptionist_node whose except branch sets no plan (lines 189-192 left out)
receptionist_node_no_minimal_plan(state, llm) ==
    LET s1 == [state EXCEPT !.current_phase = "receptionist"]
        json_match == BraceRegion(llm.text)
    IN  IF ~llm.ok
        THEN s1
        ELSE IF json_match.found
        THEN IF JsonLoadsObject(json_match.text).valid
             THEN [s1 EXCEPT !.plan = JsonLoadsObject(json_match.text).value,
                             !.execution_count = 0]
             ELSE s1
        ELSE [s1 EXCEPT !.plan = FallbackPlan(state.user_query),
                        !.execution_count = 0]

\* Phase 1.  llm: the outcome of self.llm.invoke
receptionist_node(state, llm) ==
    LET s1 == [state EXCEPT !.current_phase = "receptionist"]
        json_match == BraceRegion(llm.text)
    IN  IF ~llm.ok
        THEN [s1 EXCEPT !.plan = MinimalPlan(state.user_query)]
        ELSE IF json_match.found
        THEN IF JsonLoadsObject(json_match.text).valid
             THEN [s1 EXCEPT !.plan = JsonLoadsObject(json_match.text).value,
                             !.execution_count = 0]
             ELSE [s1 EXCEPT !.plan = MinimalPlan(state.user_query)]
        ELSE [s1 EXCEPT !.plan = FallbackPlan(state.user_query),
                        !.execution_count = 0]

\* lines 219-222, outside any try: rendering the steps raises (TypeError,
\* AttributeError) unless "steps" is a list of objects
PlanRenderRaises(state) == state.plan.has_steps /\ ~state.plan.steps_ok

\* the 10 of lines 261 and 266
MaxColumns == 10

\* find_relevant_columns(query_text, top_k=10), line 296
top_k == 10

\* selected_columns.index(col_name), from 0
RECURSIVE IndexOf(_, _)
IndexOf(seq, x) == IF Head(seq) = x THEN 0 ELSE 1 + IndexOf(Tail(seq), x)

\* lines 256-262: the schema's column names found in the response, at most 10
RECURSIVE NamesInText(_, _, _)
NamesInText(response, k, selected) ==
    IF k > Len(column_names) THEN selected
    ELSE IF Contains(Lower(response), Lower(column_names[k]))
    THEN IF Len(selected) + 1 >= MaxColumns THEN Append(selected, column_names[k])
         ELSE NamesInText(response, k + 1, Append(selected, column_names[k]))
    ELSE NamesInText(response, k + 1, selected)

\* lines 264-274; a similarity is kept in hundredths
RECURSIVE RelevantCols(_, _)
RelevantCols(selected_columns, k) ==
    IF k > Len(selected_columns) \/ k > MaxColumns THEN <<>>
    ELSE IF InSchema(selected_columns[k])
    THEN <<[column_name |-> selected_columns[k],
            description |-> column_info[selected_columns[k]].description,
            example |-> column_info[selected_columns[k]].example,
            similarity |-> 100 - 10 * IndexOf(selected_columns, selected_columns[k])]>>
         \o RelevantCols(selected_columns, k + 1)
    ELSE RelevantCols(selected_columns, k + 1)

default_cols == <<"Anonymous_Uid", "Drugname", "DiagnosisName">>

\* lines 276-285; these entries carry no 'example' key ("" here)
RECURSIVE DefaultCols(_)
DefaultCols(k) ==
    IF k > Len(default_cols) THEN <<>>
    ELSE IF InSchema(default_cols[k])
    THEN <<[column_name |-> default_cols[k],
            description |-> column_info[default_cols[k]].description,
            example |-> "",
            similarity |-> 90]>> \o DefaultCols(k + 1)
    ELSE DefaultCols(k + 1)

\* SchemaStore.find_relevant_columns: np.argsort(similarities)[::-1][:top_k]
RECURSIVE Ranked(_, _, _)
Ranked(sim, left, k) ==
    IF left = {} \/ k = 0 THEN <<>>
    ELSE LET c == CHOOSE c \in left : \A d \in left : sim[d] <= sim[c]
         IN  <<[column_name |-> c,
                description |-> column_info[c].description,
                example |-> column_info[c].example,
                similarity |-> sim[c]]>> \o Ranked(sim, left \ {c}, k - 1)

find_relevant_columns(index, k) == Ranked(index.sim, DOMAIN column_info, k)

\* whether the try block of lines 237-287 raises: the call fails, or the
\* bracket region is not JSON
LibrarianTryRaises(llm) ==
    \/ ~llm.ok
    \/ BracketRegion(llm.text).found /\ ~JsonLoadsArray(BracketRegion(llm.text).text).valid

\* whether librarian_node raises: nothing catches what the plan rendering
\* raises, nor what find_relevant_columns raises inside the except branch
librarian_raises(state, llm, index) ==
    PlanRenderRaises(state) \/ (LibrarianTryRaises(llm) /\ ~index.ok)

\* librarian_node without the default set (lines 276-285 left out)
librarian_node_no_default(state, llm, index) ==
    LET s1 == [state EXCEPT !.current_phase = "librarian"]
        json_match == BracketRegion(llm.text)
        selected_columns == IF json_match.found THEN JsonLoadsArray(json_match.text).value
                            ELSE NamesInText(llm.text, 1, <<>>)
    IN  IF LibrarianTryRaises(llm)
        THEN [s1 EXCEPT !.relevant_columns = find_relevant_columns(index, top_k)]
        ELSE [s1 EXCEPT !.relevant_columns = RelevantCols(selected_columns, 1)]

\* Phase 2.  llm: the outcome of self.llm.invoke; index: of the Column Index
librarian_node(state, llm, index) ==
    LET s1 == [state EXCEPT !.current_phase = "librarian"]
        json_match == BracketRegion(llm.text)
        selected_columns == IF json_match.found THEN JsonLoadsArray(json_match.text).value
                            ELSE NamesInText(llm.text, 1, <<>>)
        relevant_cols == RelevantCols(selected_columns, 1)
    IN  IF LibrarianTryRaises(llm)
        THEN [s1 EXCEPT !.relevant_columns = find_relevant_columns(index, top_k)]
        ELSE [s1 EXCEPT !.relevant_columns =
                           IF relevant_cols = <<>> THEN DefaultCols(1) ELSE relevant_cols]

\* the re-prompt's statement taken whenever there is one, the first
\* completion's statement being valid or not (line 433 left out)
AfterReprompt_unconditional(sql_query, reprompt) ==
    IF reprompt.ok /\ RetryMatch(reprompt.text).found
    THEN RStripSemi(Strip(RetryMatch(reprompt.text).text))
    ELSE sql_query

\* lines 432-459: the statement after the clarifying re-prompt, which is sent
\* only when the first extraction is not minimally valid
AfterReprompt(sql_query, reprompt) ==
    IF MinimallyValid(sql_query) THEN sql_query
    ELSE IF reprompt.ok /\ RetryMatch(reprompt.text).found
    THEN RStripSemi(Strip(RetryMatch(reprompt.text).text))
    ELSE sql_query

\* engineer_node counting an attempt only once the completion has arrived
\* (line 307 moved into the try, after the call)
engineer_node_counts_completions(state, llm, reprompt) ==
    LET s1 == [state EXCEPT !.current_phase = "engineer"]
        s2 == [s1 EXCEPT !.execution_count = state.execution_count + 1]
        sql_query == AfterReprompt(ExtractSQL(llm.text), reprompt)
    IN  IF ~llm.ok
        THEN [s1 EXCEPT !.sql_query = "",
                        !.error_message = "SQL generation failed: " \o llm.text]
        ELSE IF ~MinimallyValid(sql_query)
        THEN [s2 EXCEPT !.error_message =
                            "Could not generate valid SQL query. LLM response: "
                            \o Prefix(llm.text, 200),
                        !.sql_query = ""]
        ELSE [s2 EXCEPT !.sql_query = CleanSQL(sql_query)]

\* engineer_node with line 464 left out: a failed extraction keeps the
\* statement of the attempt before
engineer_node_keeps_query(state, llm, reprompt) ==
    LET s1 == [state EXCEPT !.current_phase = "engineer",
                            !.execution_count = state.execution_count + 1]
        sql_query == AfterReprompt(ExtractSQL(llm.text), reprompt)
    IN  IF ~llm.ok
        THEN [s1 EXCEPT !.sql_query = "",
                        !.error_message = "SQL generation failed: " \o llm.text]
        ELSE IF ~MinimallyValid(sql_query)
        THEN [s1 EXCEPT !.error_message =
                            "Could not generate valid SQL query. LLM response: "
                            \o Prefix(llm.text, 200)]
        ELSE [s1 EXCEPT !.sql_query = CleanSQL(sql_query)]

\* engineer_node with line 478 left out: a failed capability call leaves no
\* diagnostic
engineer_node_silent_failure(state, llm, reprompt) ==
    LET s1 == [state EXCEPT !.current_phase = "engineer",
                            !.execution_count = state.execution_count + 1]
        sql_query == AfterReprompt(ExtractSQL(llm.text), reprompt)
    IN  IF ~llm.ok
        THEN [s1 EXCEPT !.sql_query = ""]
        ELSE IF ~MinimallyValid(sql_query)
        THEN [s1 EXCEPT !.error_message =
                            "Could not generate valid SQL query. LLM response: "
                            \o Prefix(llm.text, 200),
                        !.sql_query = ""]
        ELSE [s1 EXCEPT !.sql_query = CleanSQL(sql_query)]

\* engineer_node storing back the slice of relevant_columns it renders, cut
\* to the first column
engineer_node_narrows_columns(state, llm, reprompt) ==
    LET s1 == [state EXCEPT !.current_phase = "engineer",
                            !.execution_count = state.execution_count + 1,
                            !.relevant_columns =
                                SubSeq(state.relevant_columns, 1,
                                       IF Len(state.relevant_columns) < 1
                                       THEN Len(state.relevant_columns) ELSE 1)]
        sql_query == AfterReprompt(ExtractSQL(llm.text), reprompt)
    IN  IF ~llm.ok
        THEN [s1 EXCEPT !.sql_query = "",
                        !.error_message = "SQL generation failed: " \o llm.text]
        ELSE IF ~MinimallyValid(sql_query)
        THEN [s1 EXCEPT !.error_message =
                            "Could not generate valid SQL query. LLM response: "
                            \o Prefix(llm.text, 200),
                        !.sql_query = ""]
        ELSE [s1 EXCEPT !.sql_query = CleanSQL(sql_query)]

\* engineer_node without the final validation of lines 461-465: what the
\* extraction and the re-prompt left is cleaned and stored
engineer_node_no_final_validation(state, llm, reprompt) ==
    LET s1 == [state EXCEPT !.current_phase = "engineer",
                            !.execution_count = state.execution_count + 1]
        sql_query == AfterReprompt(ExtractSQL(llm.text), reprompt)
    IN  IF ~llm.ok
        THEN [s1 EXCEPT !.sql_query = "",
                        !.error_message = "SQL generation failed: " \o llm.text]
        ELSE [s1 EXCEPT !.sql_query = CleanSQL(sql_query)]

\* Phase 3.  llm, reprompt: the outcomes of the two self.llm.invoke calls
engineer_node(state, llm, reprompt) ==
    LET s1 == [state EXCEPT !.current_phase = "engineer",
                            !.execution_count = state.execution_count + 1]
        sql_query == AfterReprompt(ExtractSQL(llm.text), reprompt)
    IN  IF ~llm.ok
        THEN [s1 EXCEPT !.sql_query = "",
                        !.error_message = "SQL generation failed: " \o llm.text]
        ELSE IF ~MinimallyValid(sql_query)
        THEN [s1 EXCEPT !.error_message =
                            "Could not generate valid SQL query. LLM response: "
                            \o Prefix(llm.text, 200),
                        !.sql_query = ""]
        ELSE [s1 EXCEPT !.sql_query = CleanSQL(sql_query)]

\* _generate_explanation.  llm: the outcome of self.llm.invoke, which is
\* called only for a non-empty result
generate_explanation(state, llm) ==
    LET result_df == state.execution_result
        num_rows == Len(result_df)
    IN  IF num_rows = 0 THEN "No matching records found for your query."
        ELSE IF llm.ok THEN Strip(llm.text)
        ELSE IF num_rows = 1 /\ Len(result_df[1]) = 1
        THEN "**" \o result_df[1][1] \o "**"
        ELSE "Found " \o ToString(num_rows) \o " record(s). See results below."

max_retries == 3

\* inspector_node with line 503 left out: a successful execution keeps the
\* error of the attempt before
inspector_node_keeps_error(state, exec, llm) ==
    LET s1 == [state EXCEPT !.current_phase = "inspector"]
    IN  IF s1.execution_count > max_retries
        THEN [s1 EXCEPT !.error_message = "Maximum retry attempts reached",
                        !.execution_result = NoRows,
                        !.explanation = "Failed to generate valid SQL after multiple attempts."]
        ELSE IF exec.ok
        THEN LET s2 == [s1 EXCEPT !.execution_result = exec.rows]
             IN  [s2 EXCEPT !.explanation = generate_explanation(s2, llm)]
        ELSE [s1 EXCEPT !.error_message = exec.text, !.execution_result = NoRows]

\* inspector_node with line 502 left out: a successful execution does not
\* store its rows
inspector_node_drops_rows(state, exec, llm) ==
    LET s1 == [state EXCEPT !.current_phase = "inspector"]
    IN  IF s1.execution_count > max_retries
        THEN [s1 EXCEPT !.error_message = "Maximum retry attempts reached",
                        !.execution_result = NoRows,
                        !.explanation = "Failed to generate valid SQL after multiple attempts."]
        ELSE IF exec.ok
        THEN LET s2 == [s1 EXCEPT !.error_message = ""]
             IN  [s2 EXCEPT !.explanation = generate_explanation(s2, llm)]
        ELSE [s1 EXCEPT !.error_message = exec.text, !.execution_result = NoRows]

\* inspector_node without the ceiling branch of lines 491-495
inspector_node_no_ceiling(state, exec, llm) ==
    LET s1 == [state EXCEPT !.current_phase = "inspector"]
    IN  IF exec.ok
        THEN LET s2 == [s1 EXCEPT !.execution_result = exec.rows, !.error_message = ""]
             IN  [s2 EXCEPT !.explanation = generate_explanation(s2, llm)]
        ELSE [s1 EXCEPT !.error_message = exec.text, !.execution_result = NoRows]

\* inspector_node storing a diagnostic only when none is stored yet
inspector_node_keeps_first_error(state, exec, llm) ==
    LET s1 == [state EXCEPT !.current_phase = "inspector"]
    IN  IF s1.execution_count > max_retries
        THEN [s1 EXCEPT !.error_message = "Maximum retry attempts reached",
                        !.execution_result = NoRows,
                        !.explanation = "Failed to generate valid SQL after multiple attempts."]
        ELSE IF exec.ok
        THEN LET s2 == [s1 EXCEPT !.execution_result = exec.rows, !.error_message = ""]
             IN  [s2 EXCEPT !.explanation = generate_explanation(s2, llm)]
        ELSE [s1 EXCEPT !.error_message = IF s1.error_message # "" THEN s1.error_message
                                          ELSE exec.text,
                        !.execution_result = NoRows]

\* inspector_node returning at once when there is no statement to execute
inspector_node_skips_empty(state, exec, llm) ==
    LET s1 == [state EXCEPT !.current_phase = "inspector"]
    IN  IF s1.execution_count > max_retries
        THEN [s1 EXCEPT !.error_message = "Maximum retry attempts reached",
                        !.execution_result = NoRows,
                        !.explanation = "Failed to generate valid SQL after multiple attempts."]
        ELSE IF s1.sql_query = ""
        THEN s1
        ELSE IF exec.ok
        THEN LET s2 == [s1 EXCEPT !.execution_result = exec.rows, !.error_message = ""]
             IN  [s2 EXCEPT !.explanation = generate_explanation(s2, llm)]
        ELSE [s1 EXCEPT !.error_message = exec.text, !.execution_result = NoRows]

\* inspector_node writing an explanation of the failure in the except branch
inspector_node_explains_failure(state, exec, llm) ==
    LET s1 == [state EXCEPT !.current_phase = "inspector"]
    IN  IF s1.execution_count > max_retries
        THEN [s1 EXCEPT !.error_message = "Maximum retry attempts reached",
                        !.execution_result = NoRows,
                        !.explanation = "Failed to generate valid SQL after multiple attempts."]
        ELSE IF exec.ok
        THEN LET s2 == [s1 EXCEPT !.execution_result = exec.rows, !.error_message = ""]
             IN  [s2 EXCEPT !.explanation = generate_explanation(s2, llm)]
        ELSE [s1 EXCEPT !.error_message = exec.text, !.execution_result = NoRows,
                        !.explanation = "The query failed: " \o exec.text]

\* Phase 4.  exec: the outcome of pd.read_sql_query; llm: of the explanation
\* request
inspector_node(state, exec, llm) ==
    LET s1 == [state EXCEPT !.current_phase = "inspector"]
    IN  IF s1.execution_count > max_retries
        THEN [s1 EXCEPT !.error_message = "Maximum retry attempts reached",
                        !.execution_result = NoRows,
                        !.explanation = "Failed to generate valid SQL after multiple attempts."]
        ELSE IF exec.ok
        THEN LET s2 == [s1 EXCEPT !.execution_result = exec.rows, !.error_message = ""]
             IN  [s2 EXCEPT !.explanation = generate_explanation(s2, llm)]
        ELSE [s1 EXCEPT !.error_message = exec.text, !.execution_result = NoRows]

RecoverableMarkers == {"no such column", "syntax error", "no such table"}

RetryLimit == 3

\* should_retry retrying on any error, whatever the count and the text
should_retry_any_error(state) ==
    IF state.error_message # "" THEN "retry" ELSE "end"

\* should_retry with  <=  for  <
should_retry_inclusive(state) ==
    IF /\ state.error_message # ""
       /\ state.execution_count <= RetryLimit
       /\ \E keyword \in RecoverableMarkers : Contains(Lower(state.error_message), keyword)
    THEN "retry"
    ELSE "end"

\* should_retry without .lower()
should_retry_case_sensitive(state) ==
    IF /\ state.error_message # ""
       /\ state.execution_count < RetryLimit
       /\ \E keyword \in RecoverableMarkers : Contains(state.error_message, keyword)
    THEN "retry"
    ELSE "end"

\* should_retry allowing a fourth and a fifth attempt
should_retry_higher_limit(state) ==
    IF /\ state.error_message # ""
       /\ state.execution_count < RetryLimit + 2
       /\ \E keyword \in RecoverableMarkers : Contains(Lower(state.error_message), keyword)
    THEN "retry"
    ELSE "end"

\* the conditional edge out of inspector
should_retry(state) ==
    IF /\ state.error_message # ""
       /\ state.execution_count < RetryLimit
       /\ \E keyword \in RecoverableMarkers : Contains(Lower(state.error_message), keyword)
    THEN "retry"
    ELSE "end"

\* query(): the dictionary returned
query_result(user_query, final_state) ==
    [query |-> user_query,
     plan |-> final_state.plan,
     relevant_columns |-> final_state.relevant_columns,
     sql_query |-> final_state.sql_query,
     result_df |-> final_state.execution_result,
     explanation |-> final_state.explanation,
     error |-> final_state.error_message,
     phases_completed |-> final_state.current_phase]

(***************************************************************************)
(* The state machine: one AgentGraph serving one query at a time           *)
(***************************************************************************)
VARIABLES
    pc,         \* where the session is: the node the graph runs next, "END"
                \* once the graph has finished, "returned" once query has
                \* returned, "raised" once an exception has left query, "idle"
                \* before the first query
    arg,        \* query's parameter user_query
    state,      \* the AgentState the graph threads through the nodes
    result,     \* the dictionary query returned
    obs,        \* what the session's external calls answered so far
    call,       \* an isolated call of should_retry, or of the extraction of
                \* engineer_node: its arguments and result
    sessions    \* the calls of query that run at the same time on one
                \* AgentGraph: for each, its position, its parameter, its
                \* AgentState, its result and what its external calls answered

vars == <<pc, arg, state, result, obs, call, sessions>>

NoResult == query_result("", initial_state(""))

NoCall == [error_message |-> "", execution_count |-> 0, ret |-> "none"]

\* obs records, for the properties only:
\*   gen_entries    entries into engineer_node
\*   exec_calls     statements handed to the executor
\*   exec_ok        some execution succeeded
\*   last_exec      the outcome of the last execution
\*   exec_recov     every execution so far failed with a diagnostic that
\*                  names a missing column, a missing table or a syntax error
\*   llm_prose      every completion so far was Prose, and no call failed
\*   lib_llm_fail   the Retrieve phase's capability call failed
\*   lib_index_fail the Column Index ranking was asked for and failed
\*   last_llm       what the capability answered to the prompt of the phase
\*                  that has just run (Plan, Retrieve, Generate)
\*   last_reprompt  what it answered to the clarifying re-prompt of the
\*                  Generate entry that has just run, NotCalled when none was
\*                  sent
\*   fix_mode       the prompt of the Generate entry that has just run held
\*                  the "PREVIOUS ATTEMPT FAILED" block
\* the last three are kept until Validate has run
NoExec == [ok |-> FALSE, rows |-> NoRows, text |-> ""]

NotCalled == [ok |-> FALSE, text |-> ""]

NoObs ==
    [gen_entries |-> 0, exec_calls |-> 0, exec_ok |-> FALSE, last_exec |-> NoExec,
     exec_recov |-> TRUE, llm_prose |-> TRUE, lib_llm_fail |-> FALSE,
     lib_index_fail |-> FALSE, last_llm |-> NotCalled, last_reprompt |-> NotCalled,
     fix_mode |-> FALSE]

IsProse(llm) == llm.ok /\ llm.text = Prose

\* the callers of query that may overlap
Sessions == {1, 2}

NoSession ==
    [pc |-> "idle", arg |-> "", state |-> initial_state(""), result |-> NoResult,
     hist |-> <<>>]

NoSessions == [i \in Sessions |-> NoSession]

Init ==
    /\ pc = "idle"
    /\ arg = ""
    /\ state = initial_state("")
    /\ result = NoResult
    /\ obs = NoObs
    /\ call = NoCall
    /\ sessions = NoSessions

\* the edges with "retry" leading back to librarian
NextNode_retry_from_librarian(node, st) ==
    CASE node = "receptionist" -> "librarian"
      [] node = "librarian" -> "engineer"
      [] node = "engineer" -> "inspector"
      [] node = "inspector" -> IF should_retry(st) = "retry" THEN "librarian" ELSE "END"

\* a graph that ends the session after a Generate entry that produced no
\* statement
NextNode_end_without_statement(node, st) ==
    CASE node = "receptionist" -> "librarian"
      [] node = "librarian" -> "engineer"
      [] node = "engineer" -> IF st.sql_query = "" THEN "END" ELSE "inspector"
      [] node = "inspector" -> IF should_retry(st) = "retry" THEN "engineer" ELSE "END"

\* the edges of _build_graph
NextNode(node, st) ==
    CASE node = "receptionist" -> "librarian"
      [] node = "librarian" -> "engineer"
      [] node = "engineer" -> "inspector"
      [] node = "inspector" -> IF should_retry(st) = "retry" THEN "engineer" ELSE "END"

\* query(user_query), up to self.app.invoke(initial_state)
Query ==
    /\ pc \in {"idle", "returned", "raised"}
    /\ \E user_query \in Queries :
          /\ arg' = user_query
          /\ state' = initial_state(user_query)
    /\ pc' = "receptionist"
    /\ result' = NoResult
    /\ obs' = NoObs
    /\ UNCHANGED <<call, sessions>>

Receptionist ==
    /\ pc = "receptionist"
    /\ \E llm \in PlanOutcomes :
          /\ state' = receptionist_node(state, llm)
          /\ obs' = [obs EXCEPT !.llm_prose = @ /\ IsProse(llm), !.last_llm = llm]
    /\ pc' = NextNode("receptionist", state')
    /\ UNCHANGED <<arg, result, call, sessions>>

\* the Column Index is asked only in the except branch
LibrarianWith(outcomes) ==
    /\ pc = "librarian"
    /\ \E llm \in outcomes, index \in IndexOutcomes :
          /\ state' = IF librarian_raises(state, llm, index)
                      THEN [state EXCEPT !.current_phase = "librarian"]
                      ELSE librarian_node(state, llm, index)
          /\ pc' = IF librarian_raises(state, llm, index) THEN "raised"
                   ELSE NextNode("librarian", state')
          /\ obs' = [obs EXCEPT
                       !.llm_prose = @ /\ (PlanRenderRaises(state) \/ IsProse(llm)),
                       !.lib_llm_fail = ~PlanRenderRaises(state) /\ ~llm.ok,
                       !.lib_index_fail = /\ ~PlanRenderRaises(state)
                                          /\ LibrarianTryRaises(llm)
                                          /\ ~index.ok,
                       !.last_llm = IF PlanRenderRaises(state) THEN NotCalled ELSE llm]
    /\ UNCHANGED <<arg, result, call, sessions>>

Librarian == LibrarianWith(LibrarianOutcomes)

\* the re-prompt is sent only when the first completion gave no valid statement
RepromptSent(llm) == llm.ok /\ ~MinimallyValid(ExtractSQL(llm.text))

\* lines 309-312 with the count tested against 2
error_context_included_from_third(st) ==
    st.error_message # "" /\ st.execution_count + 1 > 2

\* lines 309-312: whether the prompt gets the "PREVIOUS ATTEMPT FAILED" block;
\* st is the record on entry, line 307 has added 1 when the test runs
error_context_included(st) ==
    st.error_message # "" /\ st.execution_count + 1 > 1

Engineer ==
    /\ pc = "engineer"
    /\ \E llm \in EngineerOutcomes, reprompt \in RepromptOutcomes :
          /\ state' = engineer_node(state, llm, reprompt)
          /\ obs' = [obs EXCEPT
                       !.gen_entries = @ + 1,
                       !.llm_prose = /\ @
                                     /\ IsProse(llm)
                                     /\ (RepromptSent(llm) => IsProse(reprompt)),
                       !.last_llm = llm,
                       !.last_reprompt = IF RepromptSent(llm) THEN reprompt ELSE NotCalled,
                       !.fix_mode = error_context_included(state)]
    /\ pc' = NextNode("engineer", state')
    /\ UNCHANGED <<arg, result, call, sessions>>

\* the executor is called unless the ceiling branch returns first; the
\* explanation is requested only for a result with rows
ExecutorCalled(st) == st.execution_count <= max_retries

Inspector ==
    /\ pc = "inspector"
    /\ \E exec \in ExecOutcomesFor(state.sql_query), llm \in ExplainOutcomes :
          /\ state' = inspector_node(state, exec, llm)
          /\ obs' = IF ExecutorCalled(state)
                    THEN [obs EXCEPT
                            !.exec_calls = @ + 1,
                            !.exec_ok = @ \/ exec.ok,
                            !.last_exec = exec,
                            !.exec_recov = @ /\ ~exec.ok /\ exec.text \in StructuralErrors,
                            !.llm_prose = /\ @
                                          /\ (exec.ok /\ exec.rows # NoRows => IsProse(llm)),
                            !.last_llm = NotCalled,
                            !.last_reprompt = NotCalled,
                            !.fix_mode = FALSE]
                    ELSE [obs EXCEPT !.last_llm = NotCalled,
                                     !.last_reprompt = NotCalled,
                                     !.fix_mode = FALSE]
    /\ pc' = NextNode("inspector", state')
    /\ UNCHANGED <<arg, result, call, sessions>>

\* query(), after self.app.invoke returned
Return ==
    /\ pc = "END"
    /\ result' = query_result(arg, state)
    /\ pc' = "returned"
    /\ UNCHANGED <<arg, state, obs, call, sessions>>

\* should_retry called on its own, on any pair (error_message, execution_count)
MaxProbeCount == 6

ProbeErrors ==
    ExecErrors \cup {"", ErrEmptyStatement, "Maximum retry attempts reached",
                     "SQL generation failed: Connection refused", "SYNTAX ERROR"}

RetryInit ==
    /\ pc = "call"
    /\ arg = ""
    /\ state = initial_state("")
    /\ result = NoResult
    /\ obs = NoObs
    /\ sessions = NoSessions
    /\ \E e \in ProbeErrors, n \in 0..MaxProbeCount :
          call = [error_message |-> e, execution_count |-> n, ret |-> "none"]

CallShouldRetry ==
    /\ pc = "call"
    /\ call.ret = "none"
    /\ call' = [call EXCEPT !.ret =
                   should_retry([state EXCEPT !.error_message = call.error_message,
                                              !.execution_count = call.execution_count])]
    /\ UNCHANGED <<pc, arg, state, result, obs, sessions>>

RetrySpec == RetryInit /\ [][CallShouldRetry]_vars

\* inspector_node and should_retry on their own, entered with any
\* execution_count
ValidateInit ==
    /\ pc = "inspector"
    /\ arg = ""
    /\ \E n \in 1..MaxProbeCount,
          sql_query \in {"", SqlPlain, "SELECT Age FROM patient_data"},
          e \in {"", ErrNoColumn, "SQL generation failed: Connection refused"} :
          state = [initial_state("") EXCEPT !.execution_count = n,
                                            !.sql_query = sql_query,
                                            !.error_message = e,
                                            !.current_phase = "engineer"]
    /\ result = NoResult
    /\ obs = NoObs
    /\ call = NoCall
    /\ sessions = NoSessions

ValidateSpec == ValidateInit /\ [][Inspector]_vars

SessionStep == Receptionist \/ Librarian \/ Engineer \/ Inspector \/ Return

Next == Query \/ SessionStep

Spec == Init /\ [][Next]_vars

\* a session is one sequential call: a handler that can run does run
FairSpec == Spec /\ WF_vars(SessionStep)

\* ---- the Plan and Retrieve phases alone, Retrieve with the wider outcomes
Retrieve == LibrarianWith(RetrieveOutcomes)

RetrieveSpec == Init /\ [][Query \/ Receptionist \/ Retrieve]_vars

(***************************************************************************)
(* The extraction of engineer_node on its own: lines 380-471 applied to a  *)
(* completion, then applied again to the statement it produced             *)
(***************************************************************************)
FencedTwoLines == "~~~sql\nSELECT Drugname\nFROM patient_data\n~~~"

FencedSemicolon == "~~~\nSELECT COUNT(*) FROM patient_data;\n~~~"

FencedAfterSelect == "Use SELECT 1; or:\n~~~sql\nSELECT Drugname FROM patient_data\n~~~"

FencedProse == "~~~\nI cannot answer that question.\n~~~"

ExtractInputs ==
    {SqlFenced, FencedTwoLines, FencedSemicolon, FencedAfterSelect, FencedProse,
     "~~~sql\nSELECT 1\n~~~",
     "~~~sql\nPRAGMA table_info(patient_data)\n~~~\nSELECT COUNT(*) FROM patient_data;",
     "~~~SQL\n\n  SELECT * FROM patient_data WHERE DiagnosisName LIKE '%a;b%'  \n~~~\nDone.",
     "~~~sql SELECT Drugname FROM patient_data ~~~",
     SqlPlain, SqlShort, SqlReprompt,
     "Sure: select Drugname from patient_data where Revalue is not null; Enjoy",
     "SELECT Drugname\nFROM patient_data\nWHERE Revalue IS NOT NULL\n\nNote: done",
     "Query:\nSELECT   Drugname\tFROM patient_data\nExplanation: lists the drugs",
     "SELECT* FROM patient_data",
     Prose,
     "Sorry.\n\nI cannot do that.",
     "Please select a question about patients.",
     "Selecting data is impossible.",
     "  "}

ExtractReprompts == RepromptOutcomes

ExtractCall(text, reprompt) == [llm |-> Completion(text), reprompt |-> reprompt]

ExtractInit ==
    /\ pc = "extract"
    /\ \E text \in ExtractInputs, reprompt \in ExtractReprompts :
          /\ arg = text
          /\ call = ExtractCall(text, reprompt)
    /\ state = initial_state("")
    /\ result = NoResult
    /\ obs = NoObs
    /\ sessions = NoSessions

\* the completions of call go through engineer_node
CallExtract ==
    /\ pc = "extract"
    /\ state' = engineer_node(state, call.llm, call.reprompt)
    /\ pc' = "extracted"
    /\ UNCHANGED <<arg, result, obs, call, sessions>>

\* the statement just produced comes back as the completion of a new entry
FeedBack ==
    /\ pc = "extracted"
    /\ state.sql_query # ""
    /\ \E reprompt \in ExtractReprompts :
          /\ arg' = state.sql_query
          /\ call' = ExtractCall(state.sql_query, reprompt)
          /\ state' = engineer_node(initial_state(""), Completion(state.sql_query), reprompt)
    /\ pc' = "fed_back"
    /\ UNCHANGED <<result, obs, sessions>>

ExtractSpec == ExtractInit /\ [][CallExtract \/ FeedBack]_vars

(***************************************************************************)
(* Overlapping calls of query on the one AgentGraph of api_server.py.  A   *)
(* handler is given the AgentState its own call of query built; nothing    *)
(* in a handler assigns to an attribute of the AgentGraph.  The external   *)
(* calls answer from a few of the outcomes above.                          *)
(***************************************************************************)
IndexAnswer ==
    [ok |-> TRUE,
     sim |-> [c \in DOMAIN column_info |->
                 CASE c = "Anonymous_Uid" -> 22 [] c = "Drugname" -> 71
                   [] c = "DiagnosisName" -> 40 [] OTHER -> 5]]

\* the pairs of outcomes a handler's external calls give (one call: twice)
SessionOutcomes(node, st) ==
    CASE node = "receptionist" ->
            {<<Completion(PlanJsonSteps), Completion(PlanJsonSteps)>>,
             <<LLMFailure, LLMFailure>>}
      [] node = "librarian" ->
            {<<Completion(ColsJson), IndexAnswer>>, <<LLMFailure, IndexFailure>>}
      [] node = "engineer" ->
            {<<Completion(SqlPlain), Completion(SqlReprompt)>>}
      [] node = "inspector" ->
            {<<exec, Completion(Answer)>> :
                exec \in IF st.sql_query = "" THEN ExecOutcomesFor(st.sql_query)
                         ELSE {[ok |-> TRUE, rows |-> OneCell, text |-> ""],
                               [ok |-> FALSE, rows |-> NoRows, text |-> ErrNoColumn]}}

\* the handler of a node
RunNode(node, st, x, y) ==
    CASE node = "receptionist" -> receptionist_node(st, x)
      [] node = "librarian" -> librarian_node(st, x, y)
      [] node = "engineer" -> engineer_node(st, x, y)
      [] node = "inspector" -> inspector_node(st, x, y)

NodeRaises(node, st, x, y) == node = "librarian" /\ librarian_raises(st, x, y)

\* one AgentState kept for all callers, as an attribute of the AgentGraph
\* would be
SessionRecord_shared(i) == sessions[1].state

\* the AgentState the handlers of call i work on: the dictionary that call
\* of query built and gave to self.app.invoke
SessionRecord(i) == sessions[i].state

SQuery(i) ==
    /\ sessions[i].pc = "idle"
    /\ \E user_query \in Queries :
          sessions' = [sessions EXCEPT ![i] =
                          [pc |-> "receptionist", arg |-> user_query,
                           state |-> initial_state(user_query),
                           result |-> NoResult, hist |-> <<>>]]

\* what a handler of call i leaves: its AgentState, the node the graph runs
\* next, and the answers x, y its external calls gave
SessionAdvance(i, node, st, x, y) ==
    sessions' = [sessions EXCEPT
                    ![i].state = st,
                    ![i].pc = NextNode(node, st),
                    ![i].hist = Append(@, [node |-> node, x |-> x, y |-> y])]

SReceptionist(i) ==
    /\ sessions[i].pc = "receptionist"
    /\ \E o \in SessionOutcomes("receptionist", SessionRecord(i)) :
          SessionAdvance(i, "receptionist",
                         receptionist_node(SessionRecord(i), o[1]), o[1], o[2])

SLibrarian(i) ==
    /\ sessions[i].pc = "librarian"
    /\ \E o \in SessionOutcomes("librarian", SessionRecord(i)) :
          IF librarian_raises(SessionRecord(i), o[1], o[2])
          THEN sessions' = [sessions EXCEPT
                               ![i].pc = "raised",
                               ![i].hist = Append(@, [node |-> "librarian",
                                                      x |-> o[1], y |-> o[2]])]
          ELSE SessionAdvance(i, "librarian",
                              librarian_node(SessionRecord(i), o[1], o[2]), o[1], o[2])

SEngineer(i) ==
    /\ sessions[i].pc = "engineer"
    /\ \E o \in SessionOutcomes("engineer", SessionRecord(i)) :
          SessionAdvance(i, "engineer",
                         engineer_node(SessionRecord(i), o[1], o[2]), o[1], o[2])

SInspector(i) ==
    /\ sessions[i].pc = "inspector"
    /\ \E o \in SessionOutcomes("inspector", SessionRecord(i)) :
          SessionAdvance(i, "inspector",
                         inspector_node(SessionRecord(i), o[1], o[2]), o[1], o[2])

SReturn(i) ==
    /\ sessions[i].pc = "END"
    /\ sessions' = [sessions EXCEPT
                       ![i].result = query_result(sessions[i].arg, SessionRecord(i)),
                       ![i].pc = "returned"]

\* query run on its own from user_query, its external calls answering hist in
\* order: how it ends and what it returns
RECURSIVE Alone(_, _, _, _)
Alone(node, st, hist, k) ==
    IF node = "END"
    THEN IF k > Len(hist)
         THEN [pc |-> "returned", result |-> query_result(st.user_query, st)]
         ELSE [pc |-> "differs", result |-> NoResult]
    ELSE IF k > Len(hist) \/ hist[k].node # node
    THEN [pc |-> "differs", result |-> NoResult]
    ELSE IF NodeRaises(node, st, hist[k].x, hist[k].y)
    THEN [pc |-> IF k = Len(hist) THEN "raised" ELSE "differs", result |-> NoResult]
    ELSE LET st2 == RunNode(node, st, hist[k].x, hist[k].y)
         IN  Alone(NextNode(node, st2), st2, hist, k + 1)

RunAlone(user_query, hist) == Alone("receptionist", initial_state(user_query), hist, 1)

ConcInit ==
    /\ pc = "sessions"
    /\ arg = ""
    /\ state = initial_state("")
    /\ result = NoResult
    /\ obs = NoObs
    /\ call = NoCall
    /\ sessions = NoSessions

ConcNext ==
    /\ \E i \in Sessions :
          \/ SQuery(i)
          \/ SReceptionist(i)
          \/ SLibrarian(i)
          \/ SEngineer(i)
          \/ SInspector(i)
          \/ SReturn(i)
    /\ UNCHANGED <<pc, arg, state, result, obs, call>>

ConcSpec == ConcInit /\ [][ConcNext]_vars

\* ---- the calls of query made by the API: process_query is a coroutine
\* that calls agent_graph.query with no await, on the one event loop of the
\* one server process uvicorn.run starts

\* call i is inside query: process_query has called it and it has not ended
InQuery(i) == sessions[i].pc \notin {"idle", "returned", "raised"}

\* process_query as a plain function, which the framework runs on a thread
\* of its pool while other requests are served
EventLoopFree_threadpool(i) == TRUE

\* the event loop can start the coroutine of request i: no other coroutine
\* is inside its blocking call
EventLoopFree(i) == \A j \in Sessions \ {i} : ~InQuery(j)

ProcessQuery(i) == EventLoopFree(i) /\ SQuery(i)

ApiNext ==
    /\ \E i \in Sessions :
          \/ ProcessQuery(i)
          \/ SReceptionist(i)
          \/ SLibrarian(i)
          \/ SEngineer(i)
          \/ SInspector(i)
          \/ SReturn(i)
    /\ UNCHANGED <<pc, arg, state, result, obs, call>>

ApiSpec == ConcInit /\ [][ApiNext]_vars

(***************************************************************************)
(* Properties                                                              *)
(***************************************************************************)
Terminated == pc = "END"

\* C1: every session that query starts reaches the Terminated state, whatever
\* the external calls answer (checked under FairSpec: a handler that can run
\* does run).
C1_EverySessionTerminates == (pc = "receptionist") ~> Terminated

\* C2: attempt_count (execution_count) is at most 4, one more than the retry
\* ceiling, in every state of a session, so also in the terminated session and
\* in no state after it.
C2_AttemptCountAtMostFour ==
    /\ state.execution_count <= max_retries + 1
    /\ obs.gen_entries <= max_retries + 1

\* a session terminated after as many attempts as the code allows
C2_Witness == Terminated /\ state.execution_count = 3 /\ state.error_message # ""

\* C3: a session in which every execution failed with a recoverable error has
\* entered Generate 4 times when it terminates, the executor having run for
\* the first three entries only.
C3_FourGenerateEntries ==
    (Terminated /\ obs.exec_calls > 0 /\ obs.exec_recov)
        => (obs.gen_entries = 4 /\ obs.exec_calls = 3)

\* C4: should_retry returns "end" whenever execution_count is at or above the
\* ceiling of 3, for every error_message, with or without a recoverable marker
\* (checked under RetrySpec).
C4_EndAtOrAboveCeiling ==
    (call.ret # "none" /\ call.execution_count >= max_retries) => call.ret = "end"

\* should_retry was called at exactly the ceiling with a recoverable error
C4_Witness ==
    call.ret = "end" /\ call.execution_count = 3 /\ call.error_message = ErrNoColumn

\* C5: every Validate step routes to Generate exactly when last_error is one
\* of the diagnostics that carry a recoverable marker in any letter case and
\* attempt_count is below the ceiling, and to Terminated otherwise.
C5_RetryIffRecoverableBelowCeiling ==
    [][pc = "inspector" =>
          /\ pc' \in {"engineer", "END"}
          /\ (pc' = "engineer") <=>
                (/\ state'.error_message \in StructuralErrors
                 /\ state'.execution_count < max_retries)]_vars

\* Validate has routed back to Generate on a marker written in capitals
C5_Witness == pc = "engineer" /\ state.error_message = ErrSyntax

\* C6: when some Validate phase of the session executed the statement
\* successfully, the result query returns has an empty error and a non-empty
\* explanation.
C6_SuccessHasExplanation ==
    (pc = "returned" /\ obs.exec_ok) => (result.error = "" /\ result.explanation # "")

\* C7: a result with a non-empty error has an empty explanation and no rows.
C7_ErrorExcludesPayload ==
    (pc = "returned" /\ result.error # "")
        => (result.explanation = "" /\ result.result_df = NoRows)

\* query returned an error after a second attempt
C7_Witness == pc = "returned" /\ result.error # "" /\ obs.gen_entries >= 2

\* C8: query never raises on capability failures, on completions of any
\* content or on execution errors: an exception leaves query only when the
\* Column Index itself failed.
C8_QueryNeverRaises == pc = "raised" => obs.lib_index_fail

\* C9: when the capability call and the Column Index ranking both fail in
\* Retrieve, relevant_columns is the default set and the workflow goes on.
C9_DefaultColumnsWhenBothFail ==
    (obs.lib_llm_fail /\ obs.lib_index_fail)
        => (pc # "raised" /\ state.relevant_columns = DefaultCols(1))

\* C10: a session whose every completion was prose terminates only with the
\* retry ceiling reached, a non-empty error and no rows.
C10_ProseCyclesToCeiling ==
    (Terminated /\ obs.llm_prose)
        => (/\ state.execution_count >= max_retries
            /\ state.error_message # ""
            /\ state.execution_result = NoRows)

\* C11: when the first execution of a session failed with a recoverable error
\* and the second execution succeeds, that Validate step ends the session with
\* attempt_count 2, an empty error and the rows the second execution returned.
C11_SecondAttemptSucceeds ==
    [][(/\ pc = "inspector"
        /\ obs.exec_calls = 1
        /\ ~obs.last_exec.ok
        /\ obs.last_exec.text \in StructuralErrors
        /\ obs'.exec_calls = 2
        /\ obs'.last_exec.ok)
          => (/\ pc' = "END"
              /\ state'.execution_count = 2
              /\ state'.error_message = ""
              /\ state'.execution_result = obs'.last_exec.rows)]_vars

\* a session ended by a second execution that returned two rows
C11_Witness ==
    /\ Terminated
    /\ obs.exec_calls = 2
    /\ obs.last_exec.ok
    /\ state.execution_count = 2
    /\ state.execution_result = TwoRows

\* C12: with two calls of query overlapping on one AgentGraph in any order of
\* their phases, each call ends as it would have ended alone on the same
\* answers of its external calls: it returns the same eight fields, or raises
\* at the same place (checked under ConcSpec).
C12_SessionsIsolated ==
    \A i \in Sessions :
        sessions[i].pc \in {"returned", "raised"}
            => RunAlone(sessions[i].arg, sessions[i].hist)
                   = [pc |-> sessions[i].pc, result |-> sessions[i].result]

\* both calls returned, one after a retry, having been given different
\* queries and different answers
C12_Witness ==
    /\ sessions[1].pc = "returned"
    /\ sessions[2].pc = "returned"
    /\ sessions[1].arg # sessions[2].arg
    /\ sessions[1].result.error = ""
    /\ sessions[2].result.error # ""
    /\ Len(sessions[2].hist) > Len(sessions[1].hist)

\* the first fenced block of the completion call.llm, as pattern 1 reads it
FencedBlock == CodeBlock(Strip(call.llm.text))

NoSelectKeyword(text) == ~Contains(Lower(text), "select")

\* C14: when the completion and the re-prompt's completion are prose holding
\* no SELECT keyword, the Generate phase ends normally with an empty
\* generated query and the extraction diagnostic as last_error (checked under
\* ExtractSpec).
C14_ProseIsReportedAsData ==
    (/\ pc = "extracted"
     /\ NoSelectKeyword(call.llm.text)
     /\ call.reprompt.ok
     /\ NoSelectKeyword(call.reprompt.text))
        => (/\ state.sql_query = ""
            /\ StartsWith(state.error_message, "Could not generate valid SQL query.")
            /\ state.current_phase = "engineer")

\* prose inside a fenced block went through both extractions
C14_Witness ==
    /\ pc = "extracted"
    /\ arg = FencedProse
    /\ call.reprompt = Completion(Prose)
    /\ state.sql_query = ""
    /\ state.error_message # ""

\* C15: a statement the extraction produced as a minimally valid generated
\* query comes out unchanged when it is fed back as the completion (checked
\* under ExtractSpec).
C15_ExtractorIdempotent ==
    pc = "fed_back" => state.sql_query = arg

\* C16: every entry into Generate adds exactly 1 to attempt_count, Retrieve,
\* Validate and the return leave it alone, and after every step of a session
\* it equals the number of Generate entries so far.
C16_AttemptCountCountsGenerateEntries ==
    [][/\ pc = "engineer" => state'.execution_count = state.execution_count + 1
       /\ pc \in {"librarian", "inspector", "END"}
             => state'.execution_count = state.execution_count
       /\ state'.execution_count = obs'.gen_entries]_vars

\* a third Generate entry, one whose capability call failed, has been counted
C16_Witness ==
    /\ pc = "inspector"
    /\ state.execution_count = 3
    /\ obs.gen_entries = 3
    /\ state.error_message = "SQL generation failed: Connection refused"

\* C17: the phases of a session run in order: Plan starts only from query,
\* Retrieve only after Plan, Generate only after Retrieve or Validate, every
\* Generate is followed by Validate, and Validate leads to Generate or to
\* Terminated only.
C17_PhasesInOrder ==
    [][/\ pc' = "receptionist" => pc \in {"idle", "returned", "raised"}
       /\ pc' = "librarian" => pc = "receptionist"
       /\ pc = "receptionist" => pc' = "librarian"
       /\ pc' = "engineer" => pc \in {"librarian", "inspector"}
       /\ pc = "engineer" => pc' = "inspector"
       /\ pc' = "inspector" => pc = "engineer"
       /\ pc = "inspector" => pc' \in {"engineer", "END"}
       /\ pc' = "END" => pc = "inspector"]_vars

\* Validate has routed back to Generate for the second time
C17_Witness == pc = "engineer" /\ obs.gen_entries = 2 /\ obs.exec_calls = 2

\* C18: a Validate entered with attempt_count above the ceiling does not run
\* the statement, stores the max-retries message and no rows, and the retry
\* decision ends the session (checked under ValidateSpec).
C18_CeilingBranchTerminates ==
    [][(pc = "inspector" /\ state.execution_count > max_retries)
          => (/\ obs'.exec_calls = obs.exec_calls
              /\ state'.error_message = "Maximum retry attempts reached"
              /\ state'.execution_result = NoRows
              /\ pc' = "END")]_vars

\* Validate was entered with attempt_count 4 and a statement to run, and took
\* the ceiling branch
C18_Witness ==
    /\ pc = "END"
    /\ state.execution_count = 4
    /\ state.sql_query = SqlPlain
    /\ state.error_message = "Maximum retry attempts reached"

\* C19: after a failed execution, last_error is the diagnostic of that
\* execution and there are no rows, until Generate is entered again; so the
\* error query returns after a failed last execution is the diagnostic of the
\* last statement executed.
C19_LastDiagnosticReturned ==
    (obs.exec_calls > 0 /\ ~obs.last_exec.ok /\ pc \in {"engineer", "END", "returned"})
        => (/\ state.error_message = obs.last_exec.text
            /\ state.execution_result = NoRows
            /\ pc = "returned" => (/\ result.error = obs.last_exec.text
                                   /\ result.result_df = NoRows))

\* query returned the diagnostic of a second execution, the first having
\* failed with another one
C19_Witness ==
    /\ pc = "returned"
    /\ obs.exec_calls = 2
    /\ result.error = ErrLocked

\* C20: what a Generate entry leaves as generated_query is what its own
\* completions give on a new record, the empty string on a failure: nothing
\* of the query text held before the entry remains.
C20_QueryRederivedEachEntry ==
    [][pc = "engineer" =>
          \E llm \in EngineerOutcomes, reprompt \in RepromptOutcomes :
              /\ state' = engineer_node(state, llm, reprompt)
              /\ state'.sql_query
                     = engineer_node(initial_state(state.user_query), llm, reprompt).sql_query
              /\ (~llm.ok => state'.sql_query = "")]_vars

\* a second Generate entry failed to extract a statement, the first entry's
\* statement having been executed
C20_Witness ==
    /\ pc = "inspector"
    /\ obs.gen_entries = 2
    /\ obs.exec_calls = 1
    /\ state.sql_query = ""
    /\ StartsWith(state.error_message, "Could not generate valid SQL query.")

\* C21: at every Generate entry the prompt holds the "PREVIOUS ATTEMPT FAILED"
\* block exactly when last_error is non-empty on entry, and last_error is
\* non-empty on entry exactly when Generate has been entered before in the
\* session.
C21_FixModeFromLastError ==
    [][pc = "engineer" =>
          /\ obs'.fix_mode <=> state.error_message # ""
          /\ state.error_message # "" <=> obs.gen_entries >= 1]_vars

\* a second Generate entry was made in fix mode
C21_Witness ==
    /\ pc = "inspector"
    /\ obs.gen_entries = 2
    /\ obs.fix_mode
    /\ state.error_message # ""

\* the statement the clarifying re-prompt gave, "" when the call failed or
\* its completion holds no statement
RepromptStatement(reprompt) ==
    IF reprompt.ok /\ RetryMatch(reprompt.text).found
    THEN RStripSemi(Strip(RetryMatch(reprompt.text).text))
    ELSE ""

\* the Generate entry that got these two outcomes failed completely
GenerateFailed(llm, reprompt) ==
    \/ ~llm.ok
    \/ /\ ~MinimallyValid(ExtractSQL(llm.text))
       /\ ~MinimallyValid(RepromptStatement(reprompt))

\* C22: a Generate entry whose capability call fails, or whose completion and
\* re-prompt completion both give no minimally valid statement, leaves an
\* empty generated_query and a non-empty last_error, raises nothing, and
\* Validate comes next.
C22_TotalFailureIsRecorded ==
    (state.current_phase = "engineer" /\ GenerateFailed(obs.last_llm, obs.last_reprompt))
        => /\ pc = "inspector"
           /\ state.sql_query = ""
           /\ state.error_message # ""
           /\ \/ StartsWith(state.error_message, "SQL generation failed: ")
              \/ StartsWith(state.error_message, "Could not generate valid SQL query.")

\* the capability call of the first Generate entry failed and Validate is next
C22_Witness ==
    /\ pc = "inspector"
    /\ obs.gen_entries = 1
    /\ obs.last_llm = LLMFailure
    /\ state.sql_query = ""
    /\ state.error_message = "SQL generation failed: Connection refused"

\* C23: a Generate entry sends the clarifying re-prompt exactly when the
\* main completion arrived and gave no minimally valid statement; otherwise
\* the statement is the main completion's alone.  A re-prompt call that fails
\* ends the entry as an extraction failure: diagnostic quoting the main
\* completion, empty generated_query, Validate next.
C23_OneRepromptOnlyOnFailedExtraction ==
    state.current_phase = "engineer" =>
        LET llm == obs.last_llm
            reprompt == obs.last_reprompt
            first_valid == llm.ok /\ MinimallyValid(ExtractSQL(llm.text))
        IN  /\ pc = "inspector"
            /\ reprompt # NotCalled <=> (llm.ok /\ ~first_valid)
            /\ first_valid => state.sql_query = CleanSQL(ExtractSQL(llm.text))
            /\ (reprompt # NotCalled /\ ~reprompt.ok)
                  => /\ state.sql_query = ""
                     /\ state.error_message =
                            "Could not generate valid SQL query. LLM response: "
                            \o Prefix(llm.text, 200)

\* the main completion was prose, the re-prompt call failed, and Validate is
\* next with the extraction diagnostic
C23_Witness ==
    /\ pc = "inspector"
    /\ obs.last_llm = Completion(Prose)
    /\ obs.last_reprompt = LLMFailure
    /\ state.sql_query = ""
    /\ StartsWith(state.error_message, "Could not generate valid SQL query.")

\* the Plan entry that got this outcome could not read a plan: the call
\* failed, the completion holds no brace-delimited region, or the region is
\* not valid JSON
PlanFailed(llm) ==
    \/ ~llm.ok
    \/ ~BraceRegion(llm.text).found
    \/ ~JsonLoadsObject(BraceRegion(llm.text).text).valid

\* C24: the Plan phase raises nothing and Retrieve comes next; when the
\* capability call fails, the completion holds no brace-delimited region, or
\* the region is not valid JSON, plan is a well-formed plan of one step whose
\* description holds the raw user query.
C24_PlanFailureGivesDefaultPlan ==
    [][pc = "receptionist" =>
          /\ pc' = "librarian"
          /\ PlanFailed(obs'.last_llm) =>
                /\ state'.plan.has_steps
                /\ state'.plan.steps_ok
                /\ Len(state'.plan.steps) = 1
                /\ Contains(state'.plan.steps[1].description, state.user_query)
                /\ state'.plan \in {MinimalPlan(state.user_query),
                                    FallbackPlan(state.user_query)}]_vars

\* the completion held a brace-delimited region that is not JSON and Retrieve
\* is next with the minimal plan
C24_Witness ==
    /\ pc = "librarian"
    /\ obs.last_llm = Completion(PlanNotJson)
    /\ state.plan = MinimalPlan(state.user_query)

\* the relevance scores do not rise from one entry to the next
Descending(cols) ==
    \A k \in 1..(Len(cols) - 1) : cols[k].similarity >= cols[k + 1].similarity

\* C25: after the Retrieve phase candidate_columns has at most 10 entries and
\* its relevance scores are in descending order from first to last.
C25_AtMostTenDescending ==
    (pc = "engineer" /\ state.current_phase = "librarian")
        => /\ Len(state.relevant_columns) <= MaxColumns
           /\ Descending(state.relevant_columns)

\* the completion's column selection resolves to no column of the schema: a
\* JSON array none of whose first ten names is a column, or, without a
\* bracket region, a text in which no column name occurs
ResolvesToZero(llm) ==
    /\ llm.ok
    /\ LET json_match == BracketRegion(llm.text)
           parsed == JsonLoadsArray(json_match.text)
       IN  IF json_match.found
           THEN /\ parsed.valid
                /\ \A k \in 1..Len(parsed.value) :
                       k <= MaxColumns => ~InSchema(parsed.value[k])
           ELSE \A c \in DOMAIN column_info : ~Contains(Lower(llm.text), Lower(c))

\* C26: when the column selection of the completion resolves to no column of
\* the schema, candidate_columns after Retrieve is the default set
\* Anonymous_Uid, Drugname, DiagnosisName, restricted to the schema's columns.
C26_DefaultSetWhenNothingResolves ==
    (pc = "engineer" /\ state.current_phase = "librarian" /\ ResolvesToZero(obs.last_llm))
        => /\ [k \in 1..Len(state.relevant_columns) |-> state.relevant_columns[k].column_name]
                  = SelectSeq(<<"Anonymous_Uid", "Drugname", "DiagnosisName">>, InSchema)
           /\ \A k \in 1..Len(state.relevant_columns) :
                  /\ state.relevant_columns[k].similarity = 90
                  /\ state.relevant_columns[k].description
                         = column_info[state.relevant_columns[k].column_name].description

\* the completion's array named only columns the schema does not have, and
\* Retrieve left the three default columns
C26_Witness ==
    /\ pc = "engineer"
    /\ state.current_phase = "librarian"
    /\ obs.last_llm = Completion(ColsJsonUnknown)
    /\ Len(state.relevant_columns) = 3
    /\ state.relevant_columns[1].column_name = "Anonymous_Uid"

\* what each of the four strategies gives on its own, in priority order
StrategyResults(response) ==
    LET response_clean == Strip(response)
    IN  <<IF CodeBlock(response_clean).found
          THEN Strip(CodeBlock(response_clean).text) ELSE "",
          IF SelectToSemicolon(response_clean).found
          THEN Strip(SelectToSemicolon(response_clean).text) ELSE "",
          IF SelectToBlank(response_clean).found
          THEN Strip(SelectToBlank(response_clean).text) ELSE "",
          SqlLines(response_clean)>>

\* the strategies whose own result is minimally valid
ValidStrategies(response) ==
    {k \in 1..4 : MinimallyValid(StrategyResults(response)[k])}

\* C27: when one of the four strategies, taken alone, gives a minimally valid
\* statement on the main completion, generated_query is the cleaned result
\* of the first such strategy in priority order, whatever the strategies
\* before it gave.
C27_FirstValidStrategyWins ==
    (pc = "extracted" /\ ValidStrategies(call.llm.text) # {})
        => state.sql_query
               = CleanSQL(StrategyResults(call.llm.text)[MinOf(ValidStrategies(call.llm.text))])

\* C28: a non-empty generated_query stored by the Generate phase holds no
\* fence marker, no two whitespace characters in a row, and does not end
\* with ';'.
C28_StoredQueryIsNormalised ==
    (pc \in {"extracted", "fed_back"} /\ state.sql_query # "")
        => /\ ~Contains(state.sql_query, Fence)
           /\ \A i \in 1..(Len(state.sql_query) - 1) :
                  ~(IsSpace(CharAt(state.sql_query, i)) /\ IsSpace(CharAt(state.sql_query, i + 1)))
           /\ CharAt(state.sql_query, Len(state.sql_query)) # ";"

\* C29: of the calls of query made through the API, no two are inside the
\* workflow at the same time, so no two of them are in the Validate phase,
\* where the statement is executed on the one connection, at the same time.
C29_ExecutorAccessSerialized ==
    \A i \in Sessions, j \in Sessions :
        i # j => /\ ~(InQuery(i) /\ InQuery(j))
                 /\ ~(sessions[i].pc = "inspector" /\ sessions[j].pc = "inspector")

\* a second request is about to execute its statement, the first having
\* executed its own and returned
C29_Witness ==
    /\ sessions[1].pc = "returned"
    /\ sessions[1].result.sql_query = SqlPlain
    /\ sessions[2].pc = "inspector"
    /\ sessions[2].state.sql_query = SqlPlain

\* C30: Validate is never entered with attempt_count above 3, so neither
\* the session record nor a returned result ever holds the error "Maximum
\* retry attempts reached" or the explanation "Failed to generate valid SQL
\* after multiple attempts."
C30_CeilingBranchNeverTaken ==
    /\ pc = "inspector" => state.execution_count <= max_retries
    /\ state.error_message # "Maximum retry attempts reached"
    /\ state.explanation # "Failed to generate valid SQL after multiple attempts."
    /\ pc = "returned" =>
          /\ result.error # "Maximum retry attempts reached"
          /\ result.explanation # "Failed to generate valid SQL after multiple attempts."

\* query returned after three Generate entries and three failed executions,
\* with the diagnostic of the last one
C30_Witness ==
    /\ pc = "returned"
    /\ obs.gen_entries = 3
    /\ obs.exec_calls = 3
    /\ state.execution_count = 3
    /\ result.error = ErrNoColumn

\* the text is one of the two diagnostics the Generate phase writes
GenerateDiagnostic(e) ==
    \/ StartsWith(e, "SQL generation failed: ")
    \/ StartsWith(e, "Could not generate valid SQL query.")

C32_GenerateValidateFrame ==
    [][/\ pc \in {"engineer", "inspector"}
           => /\ state'.user_query = state.user_query
              /\ state'.plan = state.plan
              /\ state'.relevant_columns = state.relevant_columns
       /\ pc' = "returned"
           => /\ result'.query = arg
              /\ result'.query = state.user_query
              /\ result'.plan = state.plan
              /\ result'.relevant_columns = state.relevant_columns]_vars

\* query returned after a retry cycle with the query it was given and the
\* two columns Retrieve had selected
C32_Witness ==
    /\ pc = "returned"
    /\ obs.gen_entries = 2
    /\ obs.exec_calls = 2
    /\ result.query = arg
    /\ arg # ""
    /\ Len(result.relevant_columns) = 2
    /\ result.plan.has_steps

\* C33: a handler that is entered writes its own name to current_phase and
\* nothing else writes it; the session ends only out of Validate, so the
\* final phase of every result query returns is "inspector".
C33_FinalPhaseIsValidate ==
    [][/\ pc \in {"receptionist", "librarian", "engineer", "inspector"}
           => state'.current_phase = pc
       /\ pc \in {"END", "returned", "raised"} /\ pc' # "receptionist"
           => state'.current_phase = state.current_phase
       /\ pc' = "END" => (pc = "inspector" /\ state'.current_phase = "inspector")
       /\ pc' = "returned"
           => (pc = "END" /\ result'.phases_completed = "inspector")]_vars

\* query returned a result whose final phase is Validate, the only Generate
\* entry having produced no statement
C33_Witness ==
    /\ pc = "returned"
    /\ result.phases_completed = "inspector"
    /\ obs.gen_entries = 1
    /\ result.sql_query = ""
    /\ result.error # ""

\* C34: generated_query is empty or starts with SELECT, in any case of
\* letters, in every state: before a Generate entry, after one, and after
\* the clean-up of a statement that came with fences or runs of whitespace.
C34_StoredQueryStartsWithSelect ==
    state.sql_query = "" \/ StartsWith(Upper(state.sql_query), "SELECT")

\* a statement extracted with a closing fence behind it passed the validity
\* test and was stored with the fence removed
C34_Witness ==
    /\ pc = "extracted"
    /\ arg = "~~~sql SELECT Drugname FROM patient_data ~~~"
    /\ Contains(AfterReprompt(ExtractSQL(arg), call.reprompt), Fence)
    /\ state.sql_query = "SELECT Drugname FROM patient_data"

====
